---- MODULE Spec2Model ----
(***************************************************************************)
(* photo_transform.py: one-photo style transformation through a remote     *)
(* generation service.  The model follows one call of                      *)
(* PhotoTransformGenerator.generate_image from await to await, with the    *)
(* remote service's answers as nondeterministic inputs, and the            *)
(* presentation helpers as operations on the generator's configuration.    *)
(* Non-ASCII texts of the source (names, descriptions, messages) are       *)
(* written in ASCII.                                                       *)
(***************************************************************************)
EXTENDS Integers, Sequences, FiniteSets, TLC

(* ------------------------------------------------------------------ *)
(* Python values                                                        *)
(* ------------------------------------------------------------------ *)

\* Python's None (also a record-valued local that is not bound yet), and a
\* text-valued local that is not bound yet.
None == [none |-> TRUE]
Unbound == "<unbound>"

\* A dict keeps insertion order: a sequence of [key, value] entries.
Has(d, k) == \E i \in 1..Len(d) : d[i].key = k
Get(d, k) == d[CHOOSE i \in 1..Len(d) : d[i].key = k].value

\* str.startswith, on texts written as sequences of fragments.
StartsWith(s, prefix) ==
    /\ Len(prefix) <= Len(s)
    /\ SubSeq(s, 1, Len(prefix)) = prefix

\* A function's outcome: it returns a value or raises an exception.
Return(v) == [kind |-> "return", value |-> v]
Raise(msg) == [kind |-> "raise", error |-> msg]

\* datetime.now().isoformat(): the instant is not modelled.
Timestamp == "<now>"

(* ------------------------------------------------------------------ *)
(* PhotoTransformGenerator.__init__: the configuration dictionaries     *)
(* ------------------------------------------------------------------ *)

init_styles ==
<<
  [key |-> "photoshop", value |->
     [name |-> "Fotoshop",
      description |-> "Uluchshenie kachestva bez izmenenij",
      prompt_template |-> "Professional portrait photo of @person, enhanced quality, flawless high-definition smooth beautiful skin, perfect even skin tone, flawless complexion, razor-sharp focus on eyes, detailed ultra-realistic eyes, clean background, natural colors, perfect lighting, photorealistic, ultra-high resolution, 16K, masterpiece, best quality, hyper-detailed, no artifacts, sharp details everywhere, crystal-clear sharpness, flawless 32K resolution",
      model |-> "runwayml/gen4-image",
      model_type |-> "gen4",
      aspect_ratio |-> "3:4"]],
  [key |-> "art", value |->
     [name |-> "AI Art",
      description |-> "Illyustraciya v avtorskom stile",
      prompt_template |-> "Digital art illustration of @person, artistic style, flawless high-definition smooth beautiful skin, perfect even skin tone, flawless complexion, razor-sharp focus on eyes, detailed ultra-realistic eyes, pastel colors, creative portrait, Pinterest aesthetic, beautiful lighting, stylized, ultra-high resolution, 16K, masterpiece, best quality, hyper-detailed, no artifacts, sharp details everywhere, crystal-clear sharpness, flawless 32K resolution",
      model |-> "runwayml/gen4-image",
      model_type |-> "gen4",
      aspect_ratio |-> "3:4"]],
  [key |-> "cinema", value |->
     [name |-> "Kino",
      description |-> "Kadr iz hudozhestvennogo fil'ma",
      prompt_template |-> "Cinematic portrait of @person, movie scene, flawless high-definition smooth beautiful skin, perfect even skin tone, flawless complexion, razor-sharp focus on eyes, detailed ultra-realistic eyes, dramatic lighting, film grain, atmospheric colors, professional cinematography, ultra-high resolution, 16K, masterpiece, best quality, hyper-detailed, no artifacts, sharp details everywhere, crystal-clear sharpness, flawless 32K resolution",
      model |-> "runwayml/gen4-image",
      model_type |-> "gen4",
      aspect_ratio |-> "3:4"]],
  [key |-> "portrait", value |->
     [name |-> "Portret",
      description |-> "Glubokij psihologicheskij obraz",
      prompt_template |-> "Deep psychological portrait of @person, soft shadows, face focus, flawless high-definition smooth beautiful skin, perfect even skin tone, flawless complexion, razor-sharp focus on eyes, detailed ultra-realistic eyes, character photography, soulful expression, professional photographer style, ultra-high resolution, 16K, masterpiece, best quality, hyper-detailed, no artifacts, sharp details everywhere, crystal-clear sharpness, flawless 32K resolution",
      model |-> "runwayml/gen4-image",
      model_type |-> "gen4",
      aspect_ratio |-> "3:4"]],
  [key |-> "fantasy", value |->
     [name |-> "Fantastika",
      description |-> "Neon, sci-fi, vizual'nyj drajv",
      prompt_template |-> "Cyberpunk portrait of @person, neon lights, sci-fi style, flawless high-definition smooth beautiful skin, perfect even skin tone, flawless complexion, razor-sharp focus on eyes, detailed ultra-realistic eyes, futuristic, glitch effects, dramatic lighting, cosmic atmosphere, ultra-high resolution, 16K, masterpiece, best quality, hyper-detailed, no artifacts, sharp details everywhere, crystal-clear sharpness, flawless 32K resolution",
      model |-> "runwayml/gen4-image",
      model_type |-> "gen4",
      aspect_ratio |-> "3:4"]],
  [key |-> "lego", value |->
     [name |-> "LEGO",
      description |-> "Prevrashchenie v LEGO minifigurku",
      prompt_template |-> "A hyper-detailed LEGO minifigure of @person, ultra-realistic LEGO style, razor-sharp focus on eyes, detailed eyes, 4K resolution, vibrant colors, precise blocky textures, LEGO hair with stud details, glossy LEGO pieces, visible brick seams, LEGO cityscape background, cinematic lighting, plastic sheen, blocky toy-like nature, perfect LEGO brick alignment, stud patterns, reflective plastic surfaces, ultra-high resolution, 16K, masterpiece, best quality, no artifacts, sharp details everywhere, crystal-clear sharpness, flawless 32K resolution",
      model |-> "runwayml/gen4-image",
      model_type |-> "gen4",
      aspect_ratio |-> "3:4"]]
>>

init_aspect_ratios == <<
  [key |-> "9:16", value |-> "9:16"],
  [key |-> "4:3", value |-> "4:3"],
  [key |-> "3:4", value |-> "3:4"],
  [key |-> "1:1", value |-> "1:1"],
  [key |-> "16:9", value |-> "16:9"]
>>

init_aspect_ratio_map == <<
  [key |-> "9", value |-> "9:16"],
  [key |-> "16", value |-> "16:9"],
  [key |-> "4", value |-> "4:3"],
  [key |-> "3", value |-> "3:4"],
  [key |-> "1", value |-> "1:1"]
>>

init_resolutions == <<
  [key |-> "720p", value |-> "720p"]
>>

(* ------------------------------------------------------------------ *)
(* State                                                                *)
(* ------------------------------------------------------------------ *)

VARIABLES
    \* the generator object (self) and the process environment
    api_key,            \* self.api_key
    client,             \* self.client, a replicate.Client
    environ,            \* os.environ["REPLICATE_API_TOKEN"]
    constructed,        \* the API keys generators were constructed with
    styles,             \* self.styles
    aspect_ratios,      \* self.aspect_ratios
    aspect_ratio_map,   \* self.aspect_ratio_map
    resolutions,        \* self.resolutions
    \* the frame of the current call of generate_image
    pc,                 \* the await the call is suspended at
    image_url,          \* argument image_url
    style,              \* argument style
    arg_aspect_ratio,   \* argument aspect_ratio as the caller gave it
    aspect_ratio,       \* local aspect_ratio (rebound by the normalization)
    resolution,         \* argument resolution
    meta_response,      \* download_image: response of session.get
    file_content,       \* download_image: file_content
    download_result,    \* outcome of download_image
    upload_response,    \* upload_image_to_replicate: response of session.post
    upload_result,      \* outcome of upload_image_to_replicate
    prediction,         \* local prediction
    polls,              \* number of predictions.get calls of this call
    caught,             \* the exception e bound by the except clause
    result,             \* the dictionary generate_image returned
    \* what the remote service has been asked, in order
    requests,
    \* the last call of a presentation helper
    helper_call,
    helper_return

generator == <<api_key, client, environ, constructed, styles, aspect_ratios,
               aspect_ratio_map, resolutions>>
frame == <<pc, image_url, style, arg_aspect_ratio, aspect_ratio, resolution,
           meta_response, file_content, download_result, upload_response,
           upload_result, prediction, polls, caught, result>>
helper == <<helper_call, helper_return>>
vars == <<generator, frame, requests, helper>>

(* ------------------------------------------------------------------ *)
(* Bounds and inputs                                                    *)
(* ------------------------------------------------------------------ *)

\* The remote prediction is terminal at the latest on the MaxPolls-th poll.
MaxPolls == 2

ApiKeys == {"r8_key_A"}
\* The keys of the generators constructed after the one followed here.
OtherApiKeys == {"r8_key_B"}

\* An argument the caller left out, so that the signature's default applies.
NotPassed == "<not passed>"

ImageUrls == {"https://api.replicate.com/v1/files/f1"}
StyleArgs == {"photoshop", "art", "cinema", "portrait", "fantasy", "lego",
              "anime"}
AspectRatioArgs == {NotPassed, "9:16", "4:3", "3:4", "1:1", "16:9",
                    "9", "16", "4", "3", "1", "2:3"}
ResolutionArgs == {NotPassed, "720p", "1080p"}
\* The calls: every style with no, a short and an unsupported aspect ratio,
\* and every aspect ratio with one style; each with every resolution.
CallArgs ==
    ((StyleArgs \X {NotPassed, "16", "2:3"}) \cup ({"lego"} \X AspectRatioArgs))
    \X ResolutionArgs

(* ------------------------------------------------------------------ *)
(* Construction                                                         *)
(* ------------------------------------------------------------------ *)

Init ==
    /\ api_key \in ApiKeys
    /\ client = [api_token |-> api_key]
    /\ environ = api_key
    /\ constructed = {api_key}
    /\ styles = init_styles
    /\ aspect_ratios = init_aspect_ratios
    /\ aspect_ratio_map = init_aspect_ratio_map
    /\ resolutions = init_resolutions
    /\ pc = "idle"
    /\ image_url = Unbound
    /\ style = Unbound
    /\ arg_aspect_ratio = Unbound
    /\ aspect_ratio = Unbound
    /\ resolution = Unbound
    /\ meta_response = None
    /\ file_content = None
    /\ download_result = None
    /\ upload_response = None
    /\ upload_result = None
    /\ prediction = None
    /\ polls = 0
    /\ caught = None
    /\ result = None
    /\ requests = <<>>
    /\ helper_call = None
    /\ helper_return = None

\* PhotoTransformGenerator(key) for another generator, with another key.  The
\* new object has its own attributes; what it shares with the generator
\* followed here is the process environment, which its constructor
\* overwrites.
construct_generator(key) ==
    /\ key \in OtherApiKeys \ constructed
    /\ constructed' = constructed \cup {key}
    /\ environ' = key
    /\ UNCHANGED <<api_key, client, styles, aspect_ratios, aspect_ratio_map,
                   resolutions, frame, requests, helper>>

(* ------------------------------------------------------------------ *)
(* generate_image: parameters                                           *)
(* ------------------------------------------------------------------ *)

\* Mutant: another default in the signature.
default_aspect_ratio_square == "1:1"

\* The defaults of the signature.
default_aspect_ratio == "3:4"
default_resolution == "720p"

\* Mutant: the short forms are looked up in the dict of the full forms.
normalize_aspect_ratio_wrong_dict(ar) ==
    IF Has(aspect_ratios, ar) THEN Get(aspect_ratios, ar) ELSE ar

\* Normalization of a short aspect ratio.
normalize_aspect_ratio(ar) ==
    IF Has(aspect_ratio_map, ar) THEN Get(aspect_ratio_map, ar) ELSE ar

\* Mutant: the resolution is not checked.
validate_parameters_no_resolution(st, ar, res) ==
    IF ~Has(styles, st)
    THEN Raise("Unknown style: " \o st)
    ELSE IF ~Has(aspect_ratios, ar)
    THEN Raise("Unsupported aspect ratio: " \o ar)
    ELSE Return(None)

\* The three parameter checks, in the order of the code; ar is normalized.
validate_parameters(st, ar, res) ==
    IF ~Has(styles, st)
    THEN Raise("Unknown style: " \o st)
    ELSE IF ~Has(aspect_ratios, ar)
    THEN Raise("Unsupported aspect ratio: " \o ar)
    ELSE IF ~Has(resolutions, res)
    THEN Raise("Unsupported resolution: " \o res)
    ELSE Return(None)

\* The except clause of generate_image.
error_result(st, msg) ==
    [success |-> FALSE,
     error |-> msg,
     style |-> st,
     timestamp |-> Timestamp]

(* ------------------------------------------------------------------ *)
(* download_image                                                       *)
(* ------------------------------------------------------------------ *)

\* What session.get(url) can give: an exception of the HTTP client, or a
\* response with a status, a Content-Type header (absent: the empty text) and
\* a body that is a JSON object or no JSON at all.
ContentTypes == {<<"application/json">>,
                 <<"application/json", "; charset=utf-8">>,
                 <<"text/html">>,
                 <<>>}
MetaBodies == {[json |-> TRUE, data |-> [id |-> "f1"]],
               [json |-> TRUE, data |-> [detail |-> "no such file"]],
               [json |-> FALSE]}
MetaResponses ==
    {[exception |-> "ClientConnectorError"]}
    \cup [status : {200}, content_type : ContentTypes, body : MetaBodies]
    \cup [status : {404}, content_type : {<<"application/json">>},
          body : {[json |-> TRUE, data |-> [id |-> "f1"]]}]

\* What client.files.get(file_id) can give: an exception, an object that is
\* not bytes, or bytes.  Bytes are known by what libmagic detects in them and
\* by whether PIL can open and convert them.
FileContents ==
    {[exception |-> "ReplicateError"],
     [type |-> "File"],
     [type |-> "bytes", mime |-> <<"image/", "jpeg">>,
      pil_open |-> TRUE, pil_convert |-> TRUE],
     [type |-> "bytes", mime |-> <<"image/", "png">>,
      pil_open |-> TRUE, pil_convert |-> FALSE],
     [type |-> "bytes", mime |-> <<"image/", "svg+xml">>,
      pil_open |-> FALSE, pil_convert |-> FALSE],
     [type |-> "bytes", mime |-> <<"application/", "octet-stream">>,
      pil_open |-> TRUE, pil_convert |-> TRUE],
     [type |-> "bytes", mime |-> <<"text/", "plain">>,
      pil_open |-> FALSE, pil_convert |-> FALSE]}

\* Mutant: the Content-Type of the metadata answer is not checked.
download_image_metadata_any_type(response) ==
    IF "exception" \in DOMAIN response
    THEN Raise(response.exception)
    ELSE IF response.status = 200
    THEN IF ~response.body.json
         THEN Raise("JSONDecodeError")
         ELSE IF "id" \notin DOMAIN response.body.data
         THEN Raise("Metadata holds no file id")
         ELSE Return(response.body.data.id)
    ELSE Raise("Metadata request failed: HTTP")

\* Step 1 of download_image: the metadata response gives the file id.
download_image_metadata(response) ==
    IF "exception" \in DOMAIN response
    THEN Raise(response.exception)
    ELSE IF response.status = 200
    THEN IF ~StartsWith(response.content_type, <<"application/json">>)
         THEN Raise("Expected JSON metadata")
         ELSE IF ~response.body.json
         THEN Raise("JSONDecodeError")
         ELSE IF "id" \notin DOMAIN response.body.data
         THEN Raise("Metadata holds no file id")
         ELSE Return(response.body.data.id)
    ELSE Raise("Metadata request failed: HTTP")

\* Mutant: the detected MIME type is not checked.
download_image_content_unchecked(content) ==
    IF "exception" \in DOMAIN content
    THEN Raise(content.exception)
    ELSE IF content.type # "bytes"
    THEN Raise("files.get returned no binary data")
    ELSE Return(content)

\* Step 2 of download_image: the fetched content must be bytes of an image.
download_image_content(content) ==
    IF "exception" \in DOMAIN content
    THEN Raise(content.exception)
    ELSE IF content.type # "bytes"
    THEN Raise("files.get returned no binary data")
    ELSE IF ~StartsWith(content.mime, <<"image/">>)
    THEN Raise("Downloaded data is no image")
    ELSE Return(content)

(* ------------------------------------------------------------------ *)
(* generate_image: re-encoding                                          *)
(* ------------------------------------------------------------------ *)

\* Image.open, then convert('RGB').save(..., format="JPEG", quality=95).
reencode_jpeg(image_bytes) ==
    IF ~image_bytes.pil_open
    THEN Raise("Cannot open the image")
    ELSE IF ~image_bytes.pil_convert
    THEN Raise("OSError")
    ELSE Return([type |-> "bytes", mime |-> <<"image/", "jpeg">>,
                 pil_open |-> TRUE, pil_convert |-> TRUE])

(* ------------------------------------------------------------------ *)
(* upload_image_to_replicate                                            *)
(* ------------------------------------------------------------------ *)

upload_url == "https://api.replicate.com/v1/files"

\* What session.post can give: an exception, or a response with a status and
\* a body that is a JSON object, a JSON list or no JSON.
UploadResponses ==
    {[exception |-> "TimeoutError"],
     [status |-> 201, body |-> [json |-> "dict",
                                data |-> [url |-> "https://api.replicate.com/v1/files/f2"]]],
     [status |-> 201, body |-> [json |-> "dict", data |-> [id |-> "f2"]]],
     [status |-> 201, body |-> [json |-> "list", items |-> <<"url">>]],
     [status |-> 201, body |-> [json |-> "none"]],
     [status |-> 200, body |-> [json |-> "dict",
                                data |-> [url |-> "https://api.replicate.com/v1/files/f2"]]],
     [status |-> 500, body |-> [json |-> "none"]]}

\* Mutant: the status of the answer is not checked.
upload_image_response_any_status(response) ==
    IF "exception" \in DOMAIN response
    THEN Raise(response.exception)
    ELSE IF response.body.json = "dict" /\ "url" \in DOMAIN response.body.data
    THEN Return(response.body.data.url)
    ELSE Raise("The answer holds no URL")

\* The handling of the upload response.
upload_image_response(response) ==
    IF "exception" \in DOMAIN response
    THEN Raise(response.exception)
    ELSE IF response.status = 201
    THEN IF response.body.json = "none"
         THEN Raise("JSONDecodeError")
         ELSE IF response.body.json = "list"
         THEN IF \E i \in 1..Len(response.body.items) : response.body.items[i] = "url"
              THEN Raise("TypeError")
              ELSE Raise("The answer holds no URL")
         ELSE IF "url" \in DOMAIN response.body.data
         THEN Return(response.body.data.url)
         ELSE Raise("The answer holds no URL")
    ELSE Raise("Upload failed: HTTP")

(* ------------------------------------------------------------------ *)
(* Predictions                                                          *)
(* ------------------------------------------------------------------ *)

\* Python objects a prediction carries: a str, or an object known by what
\* str() gives for it.
PyStr(s) == [type |-> "str", text |-> s]
PyObject(t, s) == [type |-> t, text |-> s]
to_str(v) == IF v = None THEN "None" ELSE v.text
truthy(v) == v # None /\ (v.type = "str" => v.text # "")

\* The statuses of a remote prediction, and those after which it changes no
\* more.
Statuses == {"starting", "processing", "succeeded", "failed", "canceled"}
FinalStatuses == {"succeeded", "failed", "canceled"}

OutputUrl == "https://replicate.delivery/out.png"

PredictionsWith(status) ==
    IF status = "succeeded"
    THEN [id : {"p1"}, status : {status},
          output : {PyStr(OutputUrl), PyObject("FileOutput", OutputUrl)},
          error : {None}]
    ELSE IF status = "failed"
    THEN [id : {"p1"}, status : {status}, output : {None},
          error : {None, PyStr("NSFW content detected")}]
    ELSE [id : {"p1"}, status : {status}, output : {None}, error : {None}]

\* What predictions.create can give: an exception or a prediction in any
\* status.
CreateAnswers ==
    {[exception |-> "ReplicateError"]}
    \cup UNION {PredictionsWith(s) : s \in Statuses}

\* What the n-th predictions.get can give: an exception or the prediction,
\* which is in a final status from the MaxPolls-th poll on.
PollAnswers(n) ==
    {[exception |-> "ReadTimeout"]}
    \cup UNION {PredictionsWith(s) :
                  s \in IF n >= MaxPolls THEN FinalStatuses ELSE Statuses}

\* Mutants: the loop's list misses a status.
terminal_statuses_no_canceled == {"succeeded", "failed"}
terminal_statuses_no_failed == {"succeeded", "canceled"}

\* The statuses that end the polling loop.
terminal_statuses == {"succeeded", "failed", "canceled"}

\* The parameters of the model run.
input_params(st, ar, res, processed_url) ==
    [prompt |-> Get(styles, st).prompt_template,
     aspect_ratio |-> ar,
     reference_tags |-> <<"person">>,
     reference_images |-> <<processed_url>>,
     output_resolution |-> res]

\* The dictionary returned after the loop.
final_result(st, p) ==
    IF p.status = "succeeded"
    THEN [success |-> TRUE,
          result_url |-> IF p.output # None /\ p.output.type = "str"
                         THEN p.output.text
                         ELSE to_str(p.output),
          style |-> st,
          style_name |-> Get(styles, st).name,
          timestamp |-> Timestamp,
          prediction_id |-> p.id]
    ELSE [success |-> FALSE,
          error |-> "Generation ended with status: " \o p.status
                    \o (IF truthy(p.error) THEN " - " \o to_str(p.error) ELSE ""),
          style |-> st,
          timestamp |-> Timestamp]

(* ------------------------------------------------------------------ *)
(* The requests sent to the remote service                              *)
(* ------------------------------------------------------------------ *)

metadata_request(url) ==
    [op |-> "GET", url |-> url, authorization |-> "Token " \o api_key]
files_get_request(file_id) ==
    [op |-> "files.get", file_id |-> file_id, api_token |-> client.api_token]
upload_request(data, filename) ==
    [op |-> "POST", url |-> upload_url, authorization |-> "Token " \o environ,
     filename |-> filename, data |-> data]
create_request(model, input) ==
    [op |-> "predictions.create", model |-> model, input |-> input,
     api_token |-> client.api_token]
get_request(id) ==
    [op |-> "predictions.get", id |-> id, api_token |-> client.api_token]

(* ------------------------------------------------------------------ *)
(* generate_image, from await to await                                  *)
(* ------------------------------------------------------------------ *)

\* Mutant: no except clause, the exception leaves generate_image.
Fail_propagates(msg) ==
    /\ caught' = [exception |-> msg]
    /\ result' = None
    /\ pc' = "raised"

\* The except clause: the call returns the error dictionary.
Fail(msg) ==
    /\ caught' = [exception |-> msg]
    /\ result' = error_result(style, msg)
    /\ pc' = "done"

\* The call: the parameter checks, then download_image sends the metadata
\* request.
generate_image(a_image_url, a_style, a_aspect_ratio, a_resolution) ==
    /\ pc = "idle"
    /\ LET ar == IF a_aspect_ratio = NotPassed
                 THEN default_aspect_ratio ELSE a_aspect_ratio
           res == IF a_resolution = NotPassed
                  THEN default_resolution ELSE a_resolution
           checked == validate_parameters(a_style,
                                          normalize_aspect_ratio(ar), res)
       IN /\ image_url' = a_image_url
          /\ style' = a_style
          /\ arg_aspect_ratio' = a_aspect_ratio
          /\ aspect_ratio' = IF Has(styles, a_style)
                             THEN normalize_aspect_ratio(ar) ELSE ar
          /\ resolution' = res
          /\ IF checked.kind = "raise"
             THEN /\ caught' = [exception |-> checked.error]
                  /\ result' = error_result(a_style, checked.error)
                  /\ pc' = "done"
                  /\ requests' = <<>>
             ELSE /\ caught' = None
                  /\ result' = None
                  /\ pc' = "download_metadata"
                  /\ requests' = <<metadata_request(a_image_url)>>
    /\ meta_response' = None
    /\ file_content' = None
    /\ download_result' = None
    /\ upload_response' = None
    /\ upload_result' = None
    /\ prediction' = None
    /\ polls' = 0
    /\ UNCHANGED <<generator, helper>>

\* download_image, step 1: the metadata answer; then files.get is called.
download_metadata_response(response) ==
    /\ pc = "download_metadata"
    /\ meta_response' = response
    /\ LET got == download_image_metadata(response)
       IN IF got.kind = "raise"
          THEN /\ download_result' = got
               /\ Fail(got.error)
               /\ UNCHANGED requests
          ELSE /\ pc' = "download_content"
               /\ requests' = Append(requests, files_get_request(got.value))
               /\ UNCHANGED <<download_result, caught, result>>
    /\ UNCHANGED <<generator, helper, image_url, style, arg_aspect_ratio,
                   aspect_ratio, resolution, file_content, upload_response,
                   upload_result, prediction, polls>>

\* download_image, step 2: the file content; then the image is re-encoded
\* and upload_image_to_replicate posts it.
download_content_response(content) ==
    /\ pc = "download_content"
    /\ file_content' = content
    /\ LET got == download_image_content(content)
       IN /\ download_result' = got
          /\ IF got.kind = "raise"
             THEN /\ Fail(got.error)
                  /\ UNCHANGED requests
             ELSE LET jpeg == reencode_jpeg(got.value)
                  IN IF jpeg.kind = "raise"
                     THEN /\ Fail(jpeg.error)
                          /\ UNCHANGED requests
                     ELSE /\ pc' = "upload"
                          /\ requests' = Append(requests,
                                 upload_request(jpeg.value, "processed.jpg"))
                          /\ UNCHANGED <<caught, result>>
    /\ UNCHANGED <<generator, helper, image_url, style, arg_aspect_ratio,
                   aspect_ratio, resolution, meta_response, upload_response,
                   upload_result, prediction, polls>>

\* Mutant: a failed upload is sent again.
upload_response_retried(response) ==
    /\ pc = "upload"
    /\ upload_response' = response
    /\ LET got == upload_image_response(response)
       IN /\ upload_result' = got
          /\ IF got.kind = "raise"
             THEN /\ pc' = "upload"
                  /\ requests' = Append(requests, requests[Len(requests)])
             ELSE /\ pc' = "create"
                  /\ requests' = Append(requests,
                         create_request(Get(styles, style).model,
                             input_params(style, aspect_ratio, resolution,
                                          got.value)))
    /\ UNCHANGED <<generator, helper, image_url, style, arg_aspect_ratio,
                   aspect_ratio, resolution, meta_response, file_content,
                   download_result, prediction, polls, caught, result>>

\* upload_image_to_replicate: the answer to the post; then the prediction is
\* created.
upload_response_received(response) ==
    /\ pc = "upload"
    /\ upload_response' = response
    /\ LET got == upload_image_response(response)
       IN /\ upload_result' = got
          /\ IF got.kind = "raise"
             THEN /\ Fail(got.error)
                  /\ UNCHANGED requests
             ELSE /\ pc' = "create"
                  /\ requests' = Append(requests,
                         create_request(Get(styles, style).model,
                             input_params(style, aspect_ratio, resolution,
                                          got.value)))
                  /\ UNCHANGED <<caught, result>>
    /\ UNCHANGED <<generator, helper, image_url, style, arg_aspect_ratio,
                   aspect_ratio, resolution, meta_response, file_content,
                   download_result, prediction, polls>>

\* The head of the polling loop with the prediction just observed: leave the
\* loop and return, or sleep.
observe(p) ==
    /\ prediction' = p
    /\ UNCHANGED caught
    /\ IF p.status \in terminal_statuses
       THEN /\ result' = final_result(style, p)
            /\ pc' = "done"
       ELSE /\ pc' = "sleep"
            /\ UNCHANGED result

\* predictions.create answers.
create_response(answer) ==
    /\ pc = "create"
    /\ IF "exception" \in DOMAIN answer
       THEN /\ Fail(answer.exception)
            /\ UNCHANGED prediction
       ELSE observe(answer)
    /\ UNCHANGED <<generator, helper, image_url, style, arg_aspect_ratio,
                   aspect_ratio, resolution, meta_response, file_content,
                   download_result, upload_response, upload_result, polls,
                   requests>>

\* asyncio.sleep(2) is over: predictions.get is called.
poll_request ==
    /\ pc = "sleep"
    /\ polls < MaxPolls
    /\ polls' = polls + 1
    /\ requests' = Append(requests, get_request(prediction.id))
    /\ pc' = "poll"
    /\ UNCHANGED <<generator, helper, image_url, style, arg_aspect_ratio,
                   aspect_ratio, resolution, meta_response, file_content,
                   download_result, upload_response, upload_result,
                   prediction, caught, result>>

\* predictions.get answers.
poll_response(answer) ==
    /\ pc = "poll"
    /\ IF "exception" \in DOMAIN answer
       THEN /\ Fail(answer.exception)
            /\ UNCHANGED prediction
       ELSE observe(answer)
    /\ UNCHANGED <<generator, helper, image_url, style, arg_aspect_ratio,
                   aspect_ratio, resolution, meta_response, file_content,
                   download_result, upload_response, upload_result, polls,
                   requests>>

\* The caller has taken the returned dictionary: the frame is gone.
return_to_caller ==
    /\ pc = "done"
    /\ pc' = "idle"
    /\ image_url' = Unbound
    /\ style' = Unbound
    /\ arg_aspect_ratio' = Unbound
    /\ aspect_ratio' = Unbound
    /\ resolution' = Unbound
    /\ meta_response' = None
    /\ file_content' = None
    /\ download_result' = None
    /\ upload_response' = None
    /\ upload_result' = None
    /\ prediction' = None
    /\ polls' = 0
    /\ caught' = None
    /\ result' = None
    /\ requests' = <<>>
    /\ UNCHANGED <<generator, helper>>

(* ------------------------------------------------------------------ *)
(* Presentation helpers                                                 *)
(* ------------------------------------------------------------------ *)

cancel_row == <<[text |-> "Cancel", callback_data |-> "transform_cancel"]>>

\* The loop of the keyboards: a row is closed when it holds `width` buttons,
\* and a last, shorter row is kept when it is not empty.
RECURSIVE keyboard_rows(_, _, _, _, _)
keyboard_rows(buttons, i, width, keyboard, row) ==
    IF i > Len(buttons)
    THEN IF row # <<>> THEN Append(keyboard, row) ELSE keyboard
    ELSE LET r == Append(row, buttons[i])
         IN IF Len(r) = width
            THEN keyboard_rows(buttons, i + 1, width, Append(keyboard, r), <<>>)
            ELSE keyboard_rows(buttons, i + 1, width, keyboard, r)

style_keyboard(d) ==
    LET buttons == [i \in 1..Len(d) |->
                      [text |-> d[i].value.name,
                       callback_data |-> "transform_style:" \o d[i].key]]
    IN Append(keyboard_rows(buttons, 1, 2, <<>>, <<>>), cancel_row)

style_info(d, a_style) == IF Has(d, a_style) THEN Get(d, a_style) ELSE None

descriptions == <<
  [key |-> "photoshop", value |-> "Fotoshop / Uluchshenie"],
  [key |-> "art", value |-> "AI Art / Illyustraciya"],
  [key |-> "cinema", value |-> "Kino / Cinematic"],
  [key |-> "portrait", value |-> "Portret / Psihologicheskij"],
  [key |-> "fantasy", value |-> "Fantastika / Neon-Cyber"],
  [key |-> "lego", value |-> "LEGO / Minifigurka"]
>>

style_description(a_style) ==
    IF Has(descriptions, a_style)
    THEN Get(descriptions, a_style)
    ELSE "Opisanie nedostupno"

aspect_ratio_keyboard(d, style_key) ==
    LET buttons == [i \in 1..Len(d) |->
                      [text |-> d[i].key,
                       callback_data |-> "transform_ratio:" \o style_key
                                         \o ":" \o d[i].key]]
    IN Append(keyboard_rows(buttons, 1, 3, <<>>, <<>>), cancel_row)

resolution_keyboard(d, style_key, a_aspect_ratio) ==
    LET row == [i \in 1..Len(d) |->
                  [text |-> d[i].key,
                   callback_data |-> "transform_resolution:" \o style_key
                                     \o ":" \o a_aspect_ratio
                                     \o ":" \o d[i].key]]
    IN Append(IF row # <<>> THEN <<row>> ELSE <<>>, cancel_row)

aspect_ratio_description == "Vyberite sootnoshenie storon"

\* The helpers: each returns its value and changes nothing.
get_style_keyboard ==
    /\ helper_call' = [fn |-> "get_style_keyboard", args |-> <<>>]
    /\ helper_return' = [value |-> style_keyboard(styles)]
    /\ UNCHANGED <<generator, frame, requests>>

\* Mutant: dict.pop instead of dict.get.
get_style_info_popping(a_style) ==
    /\ helper_call' = [fn |-> "get_style_info", args |-> <<a_style>>]
    /\ helper_return' = [value |-> style_info(styles, a_style)]
    /\ styles' = SelectSeq(styles, LAMBDA e : e.key # a_style)
    /\ UNCHANGED <<api_key, client, environ, constructed, aspect_ratios,
                   aspect_ratio_map, resolutions, frame, requests>>

get_style_info(a_style) ==
    /\ helper_call' = [fn |-> "get_style_info", args |-> <<a_style>>]
    /\ helper_return' = [value |-> style_info(styles, a_style)]
    /\ UNCHANGED <<generator, frame, requests>>

get_style_description(a_style) ==
    /\ helper_call' = [fn |-> "get_style_description", args |-> <<a_style>>]
    /\ helper_return' = [value |-> style_description(a_style)]
    /\ UNCHANGED <<generator, frame, requests>>

get_aspect_ratio_keyboard(style_key) ==
    /\ helper_call' = [fn |-> "get_aspect_ratio_keyboard",
                       args |-> <<style_key>>]
    /\ helper_return' =
           [value |-> aspect_ratio_keyboard(aspect_ratios, style_key)]
    /\ UNCHANGED <<generator, frame, requests>>

get_resolution_keyboard(style_key, a_aspect_ratio) ==
    /\ helper_call' = [fn |-> "get_resolution_keyboard",
                       args |-> <<style_key, a_aspect_ratio>>]
    /\ helper_return' =
           [value |-> resolution_keyboard(resolutions, style_key,
                                          a_aspect_ratio)]
    /\ UNCHANGED <<generator, frame, requests>>

get_aspect_ratio_description ==
    /\ helper_call' = [fn |-> "get_aspect_ratio_description", args |-> <<>>]
    /\ helper_return' = [value |-> aspect_ratio_description]
    /\ UNCHANGED <<generator, frame, requests>>

HelperStyleArgs == {"lego", "anime"}
HelperRatioArgs == {"3:4"}

(* ------------------------------------------------------------------ *)
(* The operations                                                       *)
(* ------------------------------------------------------------------ *)

GenerateImage ==
    \E u \in ImageUrls, c \in CallArgs :
        generate_image(u, c[1][1], c[1][2], c[2])
DownloadMetadataResponse ==
    \E response \in MetaResponses : download_metadata_response(response)
DownloadContentResponse ==
    \E content \in FileContents : download_content_response(content)
UploadResponse ==
    \E response \in UploadResponses : upload_response_received(response)
CreateResponse ==
    \E answer \in CreateAnswers : create_response(answer)
PollRequest == poll_request
PollResponse ==
    \E answer \in PollAnswers(polls) : poll_response(answer)
ReturnToCaller == return_to_caller
GetStyleKeyboard == get_style_keyboard
GetStyleInfo == \E s \in HelperStyleArgs : get_style_info(s)
GetStyleDescription == \E s \in HelperStyleArgs : get_style_description(s)
GetAspectRatioKeyboard ==
    \E s \in HelperStyleArgs : get_aspect_ratio_keyboard(s)
GetResolutionKeyboard ==
    \E s \in HelperStyleArgs, a \in HelperRatioArgs :
        get_resolution_keyboard(s, a)
GetAspectRatioDescription == get_aspect_ratio_description
ConstructGenerator == \E key \in OtherApiKeys : construct_generator(key)

Next ==
    \/ GenerateImage
    \/ DownloadMetadataResponse
    \/ DownloadContentResponse
    \/ UploadResponse
    \/ CreateResponse
    \/ PollRequest
    \/ PollResponse
    \/ ReturnToCaller
    \/ GetStyleKeyboard
    \/ GetStyleInfo
    \/ GetStyleDescription
    \/ GetAspectRatioKeyboard
    \/ GetResolutionKeyboard
    \/ GetAspectRatioDescription
    \/ ConstructGenerator

Spec == Init /\ [][Next]_vars

\* Every remote call returns and every sleep ends: a call that waits for an
\* answer gets it.  Nothing obliges the caller to call.
FairSpec ==
    /\ Spec
    /\ WF_vars(DownloadMetadataResponse)
    /\ WF_vars(DownloadContentResponse)
    /\ WF_vars(UploadResponse)
    /\ WF_vars(CreateResponse)
    /\ WF_vars(PollRequest)
    /\ WF_vars(PollResponse)

(* ------------------------------------------------------------------ *)
(* The claims                                                           *)
(* ------------------------------------------------------------------ *)

\* The call has created a prediction: predictions.create has answered.
Created == prediction # None
Returned == pc = "done"
Polling == pc \in {"sleep", "poll"}

\* C1 as stated: once a prediction is created, generate_image returns only
\* while the last observed status is succeeded, failed or canceled; it polls
\* only while the last observed status is none of them; and the result has
\* success = TRUE exactly when the final status is succeeded.
C1_ReturnsOnlyOnTerminalStatus ==
    /\ (Returned /\ Created) => prediction.status \in FinalStatuses
    /\ Polling => prediction.status \notin FinalStatuses
    /\ (Returned /\ Created) =>
           (result.success <=> prediction.status = "succeeded")

\* C1 amended: once a prediction is created, generate_image returns only
\* while the last observed status is succeeded, failed or canceled, or after
\* a poll has raised an exception, and then with success = FALSE and the
\* exception as the error; it polls only while the last observed status is
\* not terminal; success = TRUE exactly when the final status is succeeded.
C1_ReturnsOnTerminalStatusOrPollException ==
    /\ (Returned /\ Created) =>
           \/ prediction.status \in FinalStatuses /\ caught = None
           \/ /\ prediction.status \notin FinalStatuses
              /\ polls >= 1
              /\ caught # None
              /\ result.success = FALSE
              /\ result.error = caught.exception
    /\ Polling => prediction.status \notin FinalStatuses
    /\ (Returned /\ Created) =>
           (result.success <=> prediction.status = "succeeded")

\* C1's case: the call returned a success after the last allowed poll.
C1_Witness ==
    /\ Returned /\ Created
    /\ polls = MaxPolls
    /\ prediction.status = "succeeded"
    /\ result.success

\* C2: with every remote call answered and the prediction final at the
\* latest on the MaxPolls-th poll, every call of generate_image returns; and
\* the polling loop is left only with a terminal status observed or with an
\* exception of a poll caught.
C2_EveryCallReturns ==
    /\ (pc # "idle") ~> Returned
    /\ [][(Polling /\ ~Polling') =>
             /\ Returned'
             /\ \/ prediction'.status \in FinalStatuses
                \/ pc = "poll" /\ caught' # None]_vars

\* C2's case: the loop ran to the last allowed poll and the call returned.
C2_Witness ==
    /\ Returned /\ Created
    /\ polls = MaxPolls
    /\ prediction.status = "canceled"

\* The operations asked of the remote service by this call, in order.
Ops == [i \in 1..Len(requests) |-> requests[i].op]
Sent(op) == \E i \in 1..Len(requests) : requests[i].op = op
StepOrder == <<"GET", "files.get", "POST", "predictions.create">>

ConfiguredStyles ==
    {"photoshop", "art", "cinema", "portrait", "fantasy", "lego"}
SupportedRatios == {"9:16", "4:3", "3:4", "1:1", "16:9"}
SupportedResolutions == {"720p"}

\* C3: the remote steps of one call come in the order metadata download,
\* file download, upload, prediction creation, polls, each of the first four
\* once; a step is taken only when the one before it has succeeded: requests
\* only with valid parameters, the upload only after download_image
\* returned, the creation only with the URL the upload returned, a poll only
\* of the prediction that was created; and a call that failed is over.
C3_StepsInOrderOnce ==
    /\ \A i \in 1..Len(requests) :
           Ops[i] = IF i <= Len(StepOrder) THEN StepOrder[i]
                    ELSE "predictions.get"
    /\ Len(requests) >= 1 =>
           /\ style \in ConfiguredStyles
           /\ aspect_ratio \in SupportedRatios
           /\ resolution \in SupportedResolutions
    /\ Len(requests) >= 2 => requests[2].file_id = meta_response.body.data.id
    /\ Len(requests) >= 3 => download_result = Return(file_content)
    /\ Len(requests) >= 4 =>
           /\ upload_result.kind = "return"
           /\ requests[4].input.reference_images = <<upload_result.value>>
    /\ Len(requests) >= 5 =>
           /\ Created
           /\ \A i \in 5..Len(requests) : requests[i].id = prediction.id
    /\ caught # None => Returned

\* C3's case: a call that went through every step and polled twice.
C3_Witness ==
    /\ Len(requests) = Len(StepOrder) + 2
    /\ Returned

\* The image checks of C4: libmagic detects an image and PIL opens it.
ImageValidated ==
    /\ download_result # None
    /\ download_result.kind = "return"
    /\ file_content.type = "bytes"
    /\ file_content.mime[1] = "image/"
    /\ file_content.pil_open

\* C4: the upload is sent only for bytes that download_image returned as an
\* image and that PIL opened; when download_image raised, or the bytes could
\* not be opened, the call is over with success = FALSE and has sent neither
\* an upload nor a prediction request.
C4_UploadOnlyOfValidatedImage ==
    /\ Sent("POST") => ImageValidated
    /\ (download_result # None /\ ~ImageValidated) =>
           /\ ~Sent("POST")
           /\ ~Sent("predictions.create")
           /\ Returned
           /\ result.success = FALSE

\* C4's case: download_image returned bytes that libmagic takes for an image
\* and PIL cannot open, and the call is over.
C4_Witness ==
    /\ download_result # None
    /\ download_result.kind = "return"
    /\ ~file_content.pil_open
    /\ Returned

\* The parameters of the current call that the checks of C5 reject.
StyleRejected == style \notin ConfiguredStyles
RatioRejected == aspect_ratio \notin SupportedRatios
ResolutionRejected == resolution \notin SupportedResolutions

\* C5: a call with a style that is not configured, an aspect ratio that is
\* not supported after normalization or a resolution that is not supported
\* sends no request at all and is over with success = FALSE and an error
\* that names the first rejected parameter with its value.
C5_InvalidParametersRejectedFirst ==
    (pc # "idle" /\ (StyleRejected \/ RatioRejected \/ ResolutionRejected)) =>
        /\ requests = <<>>
        /\ Returned
        /\ result.success = FALSE
        /\ result.error =
              IF StyleRejected THEN "Unknown style: " \o style
              ELSE IF RatioRejected
              THEN "Unsupported aspect ratio: " \o aspect_ratio
              ELSE "Unsupported resolution: " \o resolution

\* C5's case: a configured style and a supported ratio, but 1080p.
C5_Witness ==
    /\ Returned
    /\ ~StyleRejected /\ ~RatioRejected /\ ResolutionRejected

\* The positions a call can be at: none of them is "left by an exception".
Positions == {"idle", "download_metadata", "download_content", "upload",
              "create", "sleep", "poll", "done"}
FailureKeys == {"success", "error", "style", "timestamp"}

\* C6: a failure of any step (a rejected parameter, download_image or
\* upload_image_to_replicate raising, the image not decoded, predictions.create
\* or predictions.get raising) is caught; the call is then over, without
\* another attempt, and its result holds exactly success = FALSE, the error
\* text, the requested style and a timestamp.
C6_FailuresBecomeErrorResults ==
    /\ pc \in Positions
    /\ Returned => result # None
    /\ (pc # "idle" /\ (StyleRejected \/ RatioRejected \/ ResolutionRejected))
           => caught # None
    /\ (download_result # None /\ download_result.kind = "raise")
           => caught = [exception |-> download_result.error]
    /\ (download_result # None /\ download_result.kind = "return"
           /\ ~(file_content.pil_open /\ file_content.pil_convert))
           => caught # None
    /\ (upload_result # None /\ upload_result.kind = "raise")
           => caught = [exception |-> upload_result.error]
    /\ (Returned /\ Sent("predictions.create") /\ ~Created) => caught # None
    /\ (Returned /\ Created /\ prediction.status \notin FinalStatuses)
           => caught # None
    /\ caught # None =>
           /\ Returned
           /\ DOMAIN result = FailureKeys
           /\ result.success = FALSE
           /\ result.error = caught.exception
           /\ result.style = style
           /\ result.timestamp = Timestamp

\* C6's case: a poll raised and the call returned the error result.
C6_Witness ==
    /\ Returned
    /\ Sent("predictions.get")
    /\ caught # None

\* The upload answer that C7 accepts: status 201 and a JSON object with a
\* 'url' field.
UploadAccepted ==
    /\ "status" \in DOMAIN upload_response
    /\ upload_response.status = 201
    /\ upload_response.body.json = "dict"
    /\ "url" \in DOMAIN upload_response.body.data

\* C7: upload_image_to_replicate posts to the file endpoint; it returns
\* exactly when the answer has status 201 and a body with a 'url' field, and
\* then returns that field; on every other answer it raises.
C7_UploadReturnsUrlOn201 ==
    upload_response # None =>
        /\ requests[3].op = "POST"
        /\ requests[3].url = "https://api.replicate.com/v1/files"
        /\ upload_result.kind \in {"return", "raise"}
        /\ upload_result.kind = "return" <=> UploadAccepted
        /\ upload_result.kind = "return" =>
               upload_result.value = upload_response.body.data.url

\* C7's case: the upload returned a URL.
C7_Witness ==
    /\ upload_result # None
    /\ upload_result.kind = "return"

\* The answers that C8 accepts: metadata with status 200, a JSON content
\* type and an 'id'; content that is bytes in which an image is detected.
MetadataAccepted ==
    /\ "status" \in DOMAIN meta_response
    /\ meta_response.status = 200
    /\ Len(meta_response.content_type) >= 1
    /\ meta_response.content_type[1] = "application/json"
    /\ meta_response.body.json
    /\ "id" \in DOMAIN meta_response.body.data
ContentAccepted ==
    /\ "type" \in DOMAIN file_content
    /\ file_content.type = "bytes"
    /\ file_content.mime[1] = "image/"

\* C8: download_image returns only bytes, fetched for the id of accepted
\* metadata, in which an image is detected; it raises in every other case;
\* and the file is fetched only after the metadata was accepted.
C8_DownloadReturnsOnlyImageBytes ==
    /\ (download_result # None /\ download_result.kind = "return") =>
           /\ MetadataAccepted
           /\ ContentAccepted
           /\ download_result.value = file_content
    /\ (meta_response # None /\ ~MetadataAccepted) =>
           /\ download_result # None
           /\ download_result.kind = "raise"
    /\ (file_content # None /\ ~ContentAccepted) =>
           download_result.kind = "raise"
    /\ Sent("files.get") =>
           /\ MetadataAccepted
           /\ requests[2].file_id = meta_response.body.data.id

\* C8's case: download_image returned.
C8_Witness ==
    /\ download_result # None
    /\ download_result.kind = "return"

\* C9: every prediction is created with the model and the prompt template
\* of the requested style, and with the style's default aspect ratio when
\* the caller passed none.
C9_PredictionUsesStylePreset ==
    \A i \in 1..Len(requests) :
        requests[i].op = "predictions.create" =>
            LET preset == Get(styles, style)
            IN /\ requests[i].model = preset.model
               /\ requests[i].input.prompt = preset.prompt_template
               /\ arg_aspect_ratio = NotPassed =>
                      requests[i].input.aspect_ratio = preset.aspect_ratio

\* C9's case: a prediction created for a call without an aspect ratio.
C9_Witness ==
    /\ Sent("predictions.create")
    /\ arg_aspect_ratio = NotPassed
    /\ style = "lego"

\* What a helper call returns on the generator as constructed.
InitialReturn(call) ==
    CASE call.fn = "get_style_keyboard" -> style_keyboard(init_styles)
      [] call.fn = "get_style_info" -> style_info(init_styles, call.args[1])
      [] call.fn = "get_style_description" -> style_description(call.args[1])
      [] call.fn = "get_aspect_ratio_keyboard" ->
            aspect_ratio_keyboard(init_aspect_ratios, call.args[1])
      [] call.fn = "get_resolution_keyboard" ->
            resolution_keyboard(init_resolutions, call.args[1], call.args[2])
      [] call.fn = "get_aspect_ratio_description" -> aspect_ratio_description

\* C10: a helper returns, in every state, what the same call returns on the
\* generator as constructed; and a step that is no step of generate_image (a
\* helper call) sends no request and changes neither styles, aspect_ratios,
\* aspect_ratio_map, resolutions nor api_key.
C10_HelpersArePure ==
    /\ [](helper_call # None =>
             helper_return.value = InitialReturn(helper_call))
    /\ [][pc' = pc =>
             UNCHANGED <<styles, aspect_ratios, aspect_ratio_map, resolutions,
                         api_key, requests>>]_vars

\* C10's case: a helper called while a poll is in flight.
C10_Witness ==
    /\ helper_call # None
    /\ helper_call.fn = "get_style_info"
    /\ pc = "poll"

\* The full form of each short aspect ratio, as C11 lists them.
FullForm(ar) ==
    CASE ar = "9" -> "9:16"
      [] ar = "16" -> "16:9"
      [] ar = "4" -> "4:3"
      [] ar = "3" -> "3:4"
      [] ar = "1" -> "1:1"
      [] OTHER -> ar
ShortForms == {"9", "16", "4", "3", "1"}

\* C11: in a call with a configured style the local aspect ratio is the full
\* form of a short argument and the argument itself otherwise (the default
\* when none was passed); and every prediction is created with one of the
\* five supported ratios, which is that normalized ratio, and with 720p.
C11_NormalizedRatioAnd720p ==
    /\ (pc # "idle" /\ style \in ConfiguredStyles) =>
           aspect_ratio = IF arg_aspect_ratio = NotPassed THEN "3:4"
                          ELSE FullForm(arg_aspect_ratio)
    /\ \A i \in 1..Len(requests) :
           requests[i].op = "predictions.create" =>
               /\ requests[i].input.aspect_ratio \in SupportedRatios
               /\ requests[i].input.aspect_ratio = aspect_ratio
               /\ requests[i].input.output_resolution = "720p"

\* C11's case: a prediction created for a call with a short aspect ratio.
C11_Witness ==
    /\ Sent("predictions.create")
    /\ arg_aspect_ratio \in ShortForms

\* C12: whatever generators were constructed besides, every request of a
\* call (metadata download, file download, upload, prediction creation,
\* polls) is authorized with the API key of the generator generate_image
\* was called on.
C12_RequestsUseOwnKey ==
    \A i \in 1..Len(requests) :
        IF requests[i].op \in {"GET", "POST"}
        THEN requests[i].authorization = "Token " \o api_key
        ELSE requests[i].api_token = api_key
====
